---- MODULE Spec2Model ----
(***************************************************************************)
(* RealtimeAPI (src/lib/api.js): the connection manager of the realtime    *)
(* client.  One manager instance, the WebSocket objects it creates, the    *)
(* transport's callbacks (open, message, error, close), the constructor    *)
(* and the public calls connect(), disconnect() and send().                *)
(*                                                                         *)
(* All callbacks and calls run on one event loop, so each of them is one   *)
(* atomic action.  A call made from inside a subscribed handler while a    *)
(* dispatch is running is part of the action that dispatches.              *)
(***************************************************************************)
EXTENDS Integers, Sequences, FiniteSets, TLC

(***************************************************************************)
(* Bounds of the model.                                                    *)
(***************************************************************************)
\* WebSocket objects created over a run
MaxSockets == 3
\* raw frames delivered by the transport over a run of SpecRx
MaxFrames == 2
\* WebSocket objects created over a run of SpecRx
RxSockets == 1
\* WebSocket objects created over a run of SpecLive
LiveSockets == 2

VARIABLES
  hasWebSocket, \* the host defines the global WebSocket
  ws,           \* this.ws: Null or the WebSocket object held (an index of socks)
  socks,        \* every WebSocket object created so far
  trace,        \* dispatches and transport writes made by the last action, in order
  last,         \* the last call or callback and how it ended
  rx,           \* history: the raw frames delivered by the transport, in order
  srv,          \* history: the server.* dispatches made for those frames, in order
  closes,       \* history: the close dispatches each socket's callbacks have made
  urlArg,       \* settings.url, the url given to the constructor
  url           \* this.url

vars == <<hasWebSocket, ws, socks, trace, last, rx, srv, closes, urlArg, url>>

\* this.ws = null
Null == 0

(***************************************************************************)
(* The endpoint URL.  The text of a URL is held part by part; a part that  *)
(* the text does not have is the empty string.                             *)
(***************************************************************************)
UrlText(scheme, userinfo, hostname, port, path, query, fragment) ==
  [scheme |-> scheme, userinfo |-> userinfo, hostname |-> hostname, port |-> port,
   path |-> path, query |-> query, fragment |-> fragment]

\* no url setting: undefined, or the empty string
NoUrl == UrlText("", "", "", "", "", "", "")

\* this.defaultUrl
DefaultUrl == UrlText("wss:", "", "api.openai.com", "", "/v1/realtime", "", "")

\* the port a scheme implies, which a parsed URL does not report
DefaultPort(scheme) ==
  CASE scheme \in {"https:", "wss:"} -> "443"
    [] scheme \in {"http:", "ws:"}   -> "80"
    [] scheme = "ftp:"               -> "21"
    [] OTHER                         -> ""

\* new URL(text): throws on a text without a scheme; reports the host without
\* the userinfo and without the port its scheme implies, and "/" for no path
NewURL(text) ==
  IF text.scheme = ""
  THEN [ok |-> FALSE, protocol |-> "", host |-> [hostname |-> "", port |-> ""],
        pathname |-> "", search |-> "", hash |-> ""]
  ELSE [ok       |-> TRUE,
        protocol |-> text.scheme,
        host     |-> [hostname |-> text.hostname,
                      port |-> IF text.port = DefaultPort(text.scheme) THEN "" ELSE text.port],
        pathname |-> IF text.path = "" THEN "/" ELSE text.path,
        search   |-> text.query,
        hash     |-> text.fragment]

\* getWebSocketUrl() that keeps the query of the url it is given
GetWebSocketUrlWithSearch(text) ==
  LET parsedUrl == NewURL(text)
      protocol  == IF parsedUrl.protocol = "https:" THEN "wss:" ELSE "ws:"
  IN IF ~parsedUrl.ok THEN [state |-> "thrown", text |-> NoUrl]
     ELSE [state |-> "set",
           text  |-> UrlText(protocol, "", parsedUrl.host.hostname, parsedUrl.host.port,
                             parsedUrl.pathname, parsedUrl.search, "")]

\* getWebSocketUrl(url): `${protocol}//${parsedUrl.host}${parsedUrl.pathname}`, or
\* an Error for a url that does not parse
GetWebSocketUrl(text) ==
  LET parsedUrl == NewURL(text)
      protocol  == IF parsedUrl.protocol = "https:" THEN "wss:" ELSE "ws:"
  IN IF ~parsedUrl.ok THEN [state |-> "thrown", text |-> NoUrl]
     ELSE [state |-> "set",
           text  |-> UrlText(protocol, "", parsedUrl.host.hostname, parsedUrl.host.port,
                             parsedUrl.pathname, "", "")]

\* the constructor's this.url = url ? this.getWebSocketUrl(url) : this.defaultUrl
Constructor(arg) ==
  IF arg = NoUrl THEN [state |-> "set", text |-> DefaultUrl] ELSE GetWebSocketUrl(arg)

(***************************************************************************)
(* The WebSocket object, as the manager uses it.                           *)
(***************************************************************************)
\* new WebSocket(url, protocols), before onOpen / onErrorDuringConnection are added
NewWebSocket ==
  [ readyState   |-> "CONNECTING",
    errorDue     |-> FALSE,   \* the connection was failed: an error event is due
    closePending |-> FALSE,   \* close() was called, its close event is not yet delivered
    errorFired   |-> FALSE,   \* its error event was delivered
    closeFired   |-> FALSE,   \* its close event was delivered
    listeners    |-> {"onOpen", "onErrorDuringConnection"},
    promise      |-> "pending" ]

\* the manager and its sockets at the start of a call or callback, which the
\* operations below transform: idCount counts the identifiers the call has
\* generated, trace collects its dispatches and writes, ret is how it ends
Cur == [ws |-> ws, socks |-> socks, idCount |-> 0, trace |-> << >>, ret |-> "ok"]

\* isConnected(): this.ws?.readyState === WebSocket.OPEN
IsConnected(m) == m.ws # Null /\ m.socks[m.ws].readyState = "OPEN"

\* ws.close(): a no-op on a closing or closed socket; fails a connecting one
WsClose(m, s) ==
  LET k == m.socks[s] IN
  IF k.readyState \in {"CLOSING", "CLOSED"}
  THEN [m EXCEPT !.socks[s].closePending = ~k.closeFired]
  ELSE [m EXCEPT !.socks[s].readyState = "CLOSING",
                 !.socks[s].closePending = TRUE,
                 !.socks[s].errorDue = (k.readyState = "CONNECTING")]

\* disconnect() that requests the close and keeps the handle
DisconnectKeepingHandle(m) ==
  IF m.ws # Null THEN WsClose(m, m.ws) ELSE m

\* disconnect() that also removes the listeners of a connection attempt
DisconnectDetaching(m) ==
  IF m.ws # Null
  THEN [WsClose(m, m.ws) EXCEPT !.ws = Null,
                                !.socks[m.ws].listeners =
                                   @ \ {"onOpen", "onErrorDuringConnection"}]
  ELSE m

\* disconnect()
Disconnect(m) ==
  IF m.ws # Null
  THEN [WsClose(m, m.ws) EXCEPT !.ws = Null]
  ELSE m

\* settling a promise that is already settled changes nothing
Settle(p, how) == IF p = "pending" THEN how ELSE p

\* connect() without the check of a held handle that is not open
ConnectUnlessOpen(m) ==
  IF ~hasWebSocket THEN [m EXCEPT !.ret = "ReferenceError"]
  ELSE IF IsConnected(m) THEN [m EXCEPT !.ret = "AlreadyConnected"]
  ELSE [m EXCEPT !.socks = Append(@, NewWebSocket),
                 !.ws = Len(m.socks) + 1,
                 !.ret = "pending"]

\* connect() that is accepted only before the manager has created a socket
ConnectOnlyWhenIdle(m) ==
  IF ~hasWebSocket THEN [m EXCEPT !.ret = "ReferenceError"]
  ELSE IF IsConnected(m) THEN [m EXCEPT !.ret = "AlreadyConnected"]
  ELSE IF m.ws # Null \/ m.socks # << >> THEN [m EXCEPT !.ret = "AlreadyConnecting"]
  ELSE [m EXCEPT !.socks = Append(@, NewWebSocket),
                 !.ws = Len(m.socks) + 1,
                 !.ret = "pending"]

\* connect(), up to the return of the promise.  isConnected() reads WebSocket.OPEN,
\* which throws a ReferenceError on a host that defines no WebSocket
Connect(m) ==
  IF ~hasWebSocket THEN [m EXCEPT !.ret = "ReferenceError"]
  ELSE IF IsConnected(m) THEN [m EXCEPT !.ret = "AlreadyConnected"]
  ELSE IF m.ws # Null THEN [m EXCEPT !.ret = "AlreadyConnecting"]
  ELSE IF ~hasWebSocket THEN [m EXCEPT !.ret = "EnvironmentUnsupported"]
  ELSE [m EXCEPT !.socks = Append(@, NewWebSocket),
                 !.ws = Len(m.socks) + 1,
                 !.ret = "pending"]

\* onOpen, the one-shot open listener of a connection attempt
OnOpen(m, s) ==
  [m EXCEPT !.socks[s].listeners =
               (@ \ {"onOpen", "onErrorDuringConnection"})
                 \cup {"handleMessage", "handleError", "handleClose"},
            !.socks[s].promise = Settle(@, "resolved")]

\* onErrorDuringConnection that rejects and keeps the handle
OnErrorKeepingHandle(m, s) ==
  [m EXCEPT !.socks[s].listeners = @ \ {"onErrorDuringConnection"},
            !.socks[s].promise = Settle(@, "rejected")]

\* onErrorDuringConnection that clears the handle and does not reject
OnErrorNotRejecting(m, s) ==
  [m EXCEPT !.ws = Null,
            !.socks[s].listeners = @ \ {"onErrorDuringConnection"}]

\* onErrorDuringConnection, the one-shot error listener of a connection attempt
OnErrorDuringConnection(m, s) ==
  [m EXCEPT !.ws = Null,
            !.socks[s].listeners = @ \ {"onErrorDuringConnection"},
            !.socks[s].promise = Settle(@, "rejected")]

(***************************************************************************)
(* Values, JSON text and the event hub.                                    *)
(***************************************************************************)
\* a JavaScript value: an object (a map from keys to values) or null
ObjVal(f) == [t |-> "object", v |-> f]
NullVal == [t |-> "null", v |-> 0]
EmptyObj == [k \in {} |-> 0]

\* { ...base, ...data }: the keys of data replace those of base
Merge(base, data) ==
  [k \in DOMAIN base \cup DOMAIN data |-> IF k \in DOMAIN data THEN data[k] ELSE base[k]]

\* the order in which the keys of an event are enumerated
KeyOrder == <<"event_id", "type", "x">>

RECURSIVE Members(_, _)
Members(f, i) ==
  IF i > Len(KeyOrder) THEN << >>
  ELSE (IF KeyOrder[i] \in DOMAIN f THEN << <<KeyOrder[i], f[KeyOrder[i]]>> >> ELSE << >>)
       \o Members(f, i + 1)

\* JSON.stringify(event): the text of an object, member by member
JSONStringify(f) == [kind |-> "object", members |-> Members(f, 1)]

\* the object a member list denotes (a repeated key keeps its last value)
RECURSIVE ObjectOf(_)
ObjectOf(ms) ==
  IF ms = << >> THEN EmptyObj
  ELSE LET n == Len(ms)
           init == ObjectOf(SubSeq(ms, 1, n - 1))
       IN [k \in DOMAIN init \cup {ms[n][1]} |-> IF k = ms[n][1] THEN ms[n][2] ELSE init[k]]

\* JSON.parse(text): a value, or a SyntaxError
JSONParse(text) ==
  CASE text.kind = "object" -> [ok |-> TRUE, val |-> ObjVal(ObjectOf(text.members))]
    [] text.kind = "null"   -> [ok |-> TRUE, val |-> NullVal]
    [] OTHER                -> [ok |-> FALSE, val |-> NullVal]

\* RealtimeUtils.generateId('evt_'): an identifier no earlier call returned.
\* Identifiers are compared within one call's trace only, and are numbered per call
GenerateId(m) == m.idCount + 1

\* ws.send(text): throws on a connecting socket, transmits on an open one and
\* discards the data on a closing or closed one.  id is the identifier generated
\* for the send() that writes
WsSend(m, s, id, text) ==
  LET st == m.socks[s].readyState
      w  == [kind |-> "write", sock |-> s, text |-> text, gen |-> id,
             transmitted |-> (st = "OPEN")]
  IN IF st = "CONNECTING" THEN [m EXCEPT !.ret = "InvalidStateError"]
     ELSE [m EXCEPT !.trace = Append(@, w), !.ret = "ok"]

RECURSIVE Send(_, _, _, _, _), React(_, _), Dispatch(_, _, _, _)

\* what the handlers subscribed to one event name do when it is dispatched
React(m, r) ==
  CASE r = "none"       -> m
    [] r = "disconnect" -> Disconnect(m)
    [] r = "reconnect"  -> [Connect(Disconnect(m)) EXCEPT !.ret = m.ret]
    [] r = "send"       -> [Send(m, "bar", ObjVal(EmptyObj), "none", "none")
                              EXCEPT !.ret = m.ret]

\* dispatch(name, payload): runs the handlers of name; a handler that throws is
\* contained by dispatch, and is then a handler that does nothing ("none")
Dispatch(m, name, payload, r) ==
  React([m EXCEPT !.trace =
           Append(@, [kind |-> "dispatch", name |-> name, payload |-> payload])], r)

\* send() that transmits before it dispatches
SendEventWriteFirst(m, eventName, data, r1, r2) ==
  LET id    == GenerateId(m)
      event == Merge([event_id |-> id, type |-> eventName], data.v)
      m1    == WsSend([m EXCEPT !.idCount = id], m.ws, id, JSONStringify(event))
      m2    == Dispatch(m1, <<"client", eventName>>, ObjVal(event), r1)
  IN [Dispatch(m2, <<"client", "*">>, ObjVal(event), r2) EXCEPT !.ret = m1.ret]

\* send(eventName, data), once its two checks have passed: builds the event,
\* dispatches it twice and transmits it
SendEvent(m, eventName, data, r1, r2) ==
  LET id    == GenerateId(m)
      event == Merge([event_id |-> id, type |-> eventName], data.v)
      m1    == [m EXCEPT !.idCount = id]
      m2    == Dispatch(m1, <<"client", eventName>>, ObjVal(event), r1)
      m3    == Dispatch(m2, <<"client", "*">>, ObjVal(event), r2)
  IN IF m3.ws = Null THEN [m3 EXCEPT !.ret = "TypeError"]
     ELSE WsSend(m3, m3.ws, id, JSONStringify(event))

\* send() that checks the handle and not the state of its socket
SendIfHandle(m, eventName, data, r1, r2) ==
  IF ~hasWebSocket THEN [m EXCEPT !.ret = "ReferenceError"]
  ELSE IF m.ws = Null THEN [m EXCEPT !.ret = "NotConnected"]
  ELSE IF data.t # "object" THEN [m EXCEPT !.ret = "InvalidPayload"]
  ELSE SendEvent(m, eventName, data, r1, r2)

\* send(eventName, data)
Send(m, eventName, data, r1, r2) ==
  IF ~hasWebSocket THEN [m EXCEPT !.ret = "ReferenceError"]
  ELSE IF ~IsConnected(m) THEN [m EXCEPT !.ret = "NotConnected"]
  ELSE IF data.t # "object" THEN [m EXCEPT !.ret = "InvalidPayload"]
  ELSE SendEvent(m, eventName, data, r1, r2)

\* receive() that dispatches under the wildcard name first
ReceiveWildcardFirst(m, eventName, payload, r1, r2) ==
  Dispatch(Dispatch(m, <<"server", "*">>, payload, r2),
           <<"server", eventName>>, payload, r1)

\* receive(eventName, payload)
Receive(m, eventName, payload, r1, r2) ==
  Dispatch(Dispatch(m, <<"server", eventName>>, payload, r1),
           <<"server", "*">>, payload, r2)

\* message.type, as `server.${message.type}` prints it
TypeOf(val) ==
  IF val.t = "object" /\ "type" \in DOMAIN val.v THEN val.v.type ELSE "undefined"

\* handleMessage() without its try/catch
HandleMessageUncaught(m, text, r1, r2) ==
  LET p == JSONParse(text) IN
  IF ~p.ok THEN [m EXCEPT !.ret = "SyntaxError"]
  ELSE IF p.val.t = "null" THEN [m EXCEPT !.ret = "TypeError"]
  ELSE Receive(m, TypeOf(p.val), p.val, r1, r2)

\* handleMessage(event): a frame that fails to parse, or parses to null, is dropped
HandleMessage(m, text, r1, r2) ==
  LET p == JSONParse(text) IN
  IF ~p.ok \/ p.val.t = "null" THEN m
  ELSE Receive(m, TypeOf(p.val), p.val, r1, r2)

\* handleError() that dispatches and does not disconnect
HandleErrorDispatchOnly(m, r) == Dispatch(m, <<"close">>, ObjVal([error |-> TRUE]), r)

\* handleError()
HandleError(m, r) == Disconnect(Dispatch(m, <<"close">>, ObjVal([error |-> TRUE]), r))

\* handleClose() that dispatches and does not disconnect
HandleCloseDispatchOnly(m, r) == Dispatch(m, <<"close">>, ObjVal([error |-> FALSE]), r)

\* handleClose()
HandleClose(m, r) == Disconnect(Dispatch(m, <<"close">>, ObjVal([error |-> FALSE]), r))

(***************************************************************************)
(* Inputs.                                                                 *)
(***************************************************************************)
Reactions == {"none", "disconnect", "reconnect", "send"}
\* handlers run only if the call reaches a dispatch
ReactionsIf(reached) == IF reached THEN Reactions ELSE {"none"}
EventNames == {"foo"}
\* the data argument of send(): objects, one with each key send() sets, and null
DataInputs ==
  { ObjVal([x |-> 1]), ObjVal([event_id |-> 0, type |-> "baz"]), NullVal }
\* raw frames: two events, an object without a type, null, and text that is no JSON
Frames ==
  { [kind |-> "object", members |-> << <<"event_id", 1>>, <<"type", "ping">>, <<"x", 1>> >>],
    [kind |-> "object", members |-> << <<"event_id", 2>>, <<"type", "pong">> >>],
    [kind |-> "object", members |-> << <<"x", 1>> >>],
    [kind |-> "null", members |-> << >>],
    [kind |-> "garbage", members |-> << >>] }

\* the url setting: every scheme, with and without userinfo, port, path, query and
\* fragment, and a text that is no URL
UrlInputs ==
  { UrlText(sc, ui, "h", po, pa, qu, fr) :
      sc \in {"https:", "http:", "wss:", "ws:", "ftp:"}, ui \in {"", "u"},
      po \in {"", "80", "443", "8080"}, pa \in {"", "/", "/v1"},
      qu \in {"", "a=1"}, fr \in {"", "f"} }
    \cup {UrlText("", "", "h", "", "/v1", "", ""), NoUrl}

\* the close dispatches in a trace
CloseCount(tr) == Len(SelectSeq(tr, LAMBDA e : e.kind = "dispatch" /\ e.name = <<"close">>))

\* a call or callback ends: the fields it leaves, and what it did
Commit(m, op) ==
  /\ Len(m.socks) <= MaxSockets
  /\ ws' = m.ws
  /\ socks' = m.socks
  /\ trace' = m.trace
  /\ last' = op
  /\ closes' = IF op.op \in {"error", "close"}
               THEN [closes EXCEPT ![op.sock] = @ + CloseCount(m.trace)]
               ELSE closes
  /\ UNCHANGED <<urlArg, url>>

Init ==
  /\ hasWebSocket \in BOOLEAN
  /\ ws = Null
  /\ socks = << >>
  /\ trace = << >>
  /\ last = [op |-> "new", sock |-> Null, ret |-> "ok"]
  /\ rx = << >>
  /\ srv = << >>
  /\ closes = [s \in 1..MaxSockets |-> 0]
  /\ urlArg = NoUrl
  /\ url = Constructor(NoUrl)

CallConnect ==
  LET m == Connect(Cur) IN
  /\ Commit(m, [op |-> "connect", sock |-> ws, ret |-> m.ret])
  /\ UNCHANGED <<hasWebSocket, rx, srv>>

CallDisconnect ==
  LET m == Disconnect(Cur) IN
  /\ Commit(m, [op |-> "disconnect", sock |-> ws, ret |-> m.ret])
  /\ UNCHANGED <<hasWebSocket, rx, srv>>

TransportOpen ==
  \E s \in 1..Len(socks) :
    /\ socks[s].readyState = "CONNECTING"
    /\ LET m0 == [Cur EXCEPT !.socks[s].readyState = "OPEN"]
           m  == IF "onOpen" \in socks[s].listeners THEN OnOpen(m0, s) ELSE m0
       IN Commit(m, [op |-> "open", sock |-> s, ret |-> m.ret])
    /\ UNCHANGED <<hasWebSocket, rx, srv>>

CallSend ==
  \E n \in EventNames, d \in DataInputs :
  \E r1, r2 \in ReactionsIf(IsConnected(Cur) /\ d.t = "object") :
    LET m == Send(Cur, n, d, r1, r2) IN
    /\ Commit(m, [op |-> "send", sock |-> ws, name |-> n, ret |-> m.ret])
    /\ UNCHANGED <<hasWebSocket, rx, srv>>

\* the transport reports a failure: of a connection attempt, of an open
\* connection, or of an attempt the manager closed before it opened
TransportError ==
  \E s \in 1..Len(socks) :
  \E r \in ReactionsIf("handleError" \in socks[s].listeners) :
    /\ ~socks[s].errorFired
    /\ \/ socks[s].readyState \in {"CONNECTING", "OPEN"}
       \/ socks[s].readyState = "CLOSING" /\ socks[s].errorDue
    /\ LET m0 == [Cur EXCEPT !.socks[s].readyState = "CLOSED",
                             !.socks[s].errorDue = FALSE,
                             !.socks[s].errorFired = TRUE]
           m  == IF "onErrorDuringConnection" \in socks[s].listeners
                 THEN OnErrorDuringConnection(m0, s)
                 ELSE IF "handleError" \in socks[s].listeners
                 THEN HandleError(m0, r)
                 ELSE m0
       IN Commit(m, [op |-> "error", sock |-> s, ret |-> m.ret])
    /\ UNCHANGED <<hasWebSocket, rx, srv>>

\* the peer starts the closing handshake of an open connection
TransportClosing ==
  \E s \in 1..Len(socks) :
    /\ socks[s].readyState = "OPEN"
    /\ Commit([Cur EXCEPT !.socks[s].readyState = "CLOSING"],
              [op |-> "closing", sock |-> s, ret |-> "ok"])
    /\ UNCHANGED <<hasWebSocket, rx, srv>>

\* the transport reports the connection closed: cleanly, or after its error event.
\* It is the socket's last event: none of its listeners runs again
TransportClose ==
  \E s \in 1..Len(socks) :
  \E r \in ReactionsIf("handleClose" \in socks[s].listeners) :
    /\ ~socks[s].closeFired
    /\ \/ socks[s].readyState = "OPEN"
       \/ socks[s].readyState = "CLOSING" /\ ~socks[s].errorDue
       \/ socks[s].readyState = "CLOSED" /\ socks[s].errorFired
    /\ LET m0 == [Cur EXCEPT !.socks[s].readyState = "CLOSED",
                             !.socks[s].closePending = FALSE,
                             !.socks[s].closeFired = TRUE]
           m1 == IF "handleClose" \in socks[s].listeners THEN HandleClose(m0, r) ELSE m0
           m  == [m1 EXCEPT !.socks[s].listeners = {}]
       IN Commit(m, [op |-> "close", sock |-> s, ret |-> m.ret])
    /\ UNCHANGED <<hasWebSocket, rx, srv>>

IsServerDispatch(e) == e.kind = "dispatch" /\ e.name[1] = "server"

\* one raw frame of an open connection reaches handleMessage
Delivery(s, f, r1, r2) ==
  /\ socks[s].readyState = "OPEN"
  /\ "handleMessage" \in socks[s].listeners
  /\ LET m == HandleMessage(Cur, f, r1, r2) IN
     Commit(m, [op |-> "message", sock |-> s, frame |-> f, ret |-> m.ret])

\* the transport delivers a frame
TransportMessage ==
  \E s \in 1..Len(socks), f \in Frames :
  \E r1, r2 \in ReactionsIf(JSONParse(f).ok /\ JSONParse(f).val.t # "null") :
    /\ Delivery(s, f, r1, r2)
    /\ UNCHANGED <<hasWebSocket, rx, srv>>

\* the transport delivers a frame, and the histories record it
TransportMessageRecorded ==
  \E s \in 1..Len(socks), f \in Frames :
  \E r1, r2 \in ReactionsIf(JSONParse(f).ok /\ JSONParse(f).val.t # "null") :
    /\ Len(rx) < MaxFrames
    /\ Delivery(s, f, r1, r2)
    /\ rx' = Append(rx, f)
    /\ srv' = srv \o SelectSeq(trace', IsServerDispatch)
    /\ UNCHANGED hasWebSocket

Next ==
  \/ CallConnect
  \/ CallDisconnect
  \/ CallSend
  \/ TransportOpen
  \/ TransportError
  \/ TransportClosing
  \/ TransportClose
  \/ TransportMessage

\* every call and callback; the frames delivered are not recorded
Spec == Init /\ [][Next]_vars

\* a step of SpecRx stays within its sockets
Rx(A) == A /\ Len(socks') <= RxSockets

NextRx ==
  \/ Rx(CallConnect)
  \/ Rx(CallDisconnect)
  \/ Rx(CallSend)
  \/ Rx(TransportOpen)
  \/ Rx(TransportError)
  \/ Rx(TransportClosing)
  \/ Rx(TransportClose)
  \/ Rx(TransportMessageRecorded)

\* the transport reports open or error for socket s, whose connect() is pending
Settles(s) ==
  /\ s \in 1..Len(socks)
  /\ socks[s].promise = "pending"
  /\ TransportOpen \/ TransportError
  /\ last'.sock = s

\* a step of SpecLive stays within its sockets
Lv(A) == A /\ Len(socks') <= LiveSockets

NextLive ==
  \/ Lv(CallConnect)
  \/ Lv(CallDisconnect)
  \/ Lv(CallSend)
  \/ Lv(TransportOpen)
  \/ Lv(TransportError)
  \/ Lv(TransportClosing)
  \/ Lv(TransportClose)
  \/ Lv(TransportMessage)

\* every call and callback on the first LiveSockets sockets, where the transport
\* reports open or error for every socket it was asked to open
SpecLive ==
  Init /\ [][NextLive]_vars /\ \A s \in 1..LiveSockets : WF_vars(Settles(s))

\* new RealtimeAPI({ url }), before the constructor has run
InitUrl ==
  /\ hasWebSocket \in BOOLEAN
  /\ ws = Null
  /\ socks = << >>
  /\ trace = << >>
  /\ last = [op |-> "new", sock |-> Null, ret |-> "ok"]
  /\ rx = << >>
  /\ srv = << >>
  /\ closes = [s \in 1..MaxSockets |-> 0]
  /\ urlArg \in UrlInputs
  /\ url = [state |-> "unset", text |-> NoUrl]

\* the constructor runs
Construct ==
  /\ url.state = "unset"
  /\ url' = Constructor(urlArg)
  /\ UNCHANGED <<hasWebSocket, ws, socks, trace, last, rx, srv, closes, urlArg>>

NextUrl == Construct

\* the construction of a manager from every url setting
SpecUrl == InitUrl /\ [][NextUrl]_vars

\* the receive path: every call and callback on the first RxSockets sockets; the
\* first MaxFrames frames delivered are recorded, with their server dispatches
SpecRx == Init /\ [][NextRx]_vars

(***************************************************************************)
(* Claims.                                                                 *)
(***************************************************************************)
Live(s) == socks[s].readyState \in {"CONNECTING", "OPEN"}
\* onOpen ran for the socket
Opened(s) == socks[s].promise = "resolved"

\* C1: a connect() made while the manager holds a handle rejects, with
\* AlreadyConnected if the held socket is open and AlreadyConnecting if it is not,
\* creates no socket and leaves the handle as it was.
C1_SecondConnectRejected ==
  [][ (last'.op = "connect" /\ ws # Null) =>
        /\ last'.ret = (IF IsConnected(Cur) THEN "AlreadyConnected" ELSE "AlreadyConnecting")
        /\ ws' = ws
        /\ socks' = socks ]_vars

\* a connect() was rejected while the held socket was still connecting
C1_Witness ==
  /\ last.op = "connect" /\ last.ret = "AlreadyConnecting"
  /\ ws # Null /\ socks[ws].readyState = "CONNECTING"

\* C2: at most one socket the manager created is connecting or open at any time.
C2_AtMostOneLiveSocket ==
  Cardinality({s \in 1..Len(socks) : Live(s)}) <= 1

\* C3, as claimed: whenever the handle is not null, its socket has been reported
\* open and has not since been closed, errored or disconnected.
C3_HandleOnlyWhileOpen ==
  ws # Null =>
    /\ Opened(ws)
    /\ ~socks[ws].errorFired /\ ~socks[ws].closeFired /\ ~socks[ws].closePending

\* C3, amended: whenever the handle is not null, its socket is one connect()
\* created that has had no error event, no close event and no close() since; it
\* may still be connecting.
C3_HandleOnlyWhileLive ==
  ws # Null =>
    /\ ws \in 1..Len(socks)
    /\ ~socks[ws].errorFired /\ ~socks[ws].closeFired /\ ~socks[ws].closePending

\* the handle is held for a socket that has not opened yet
C3_Witness ==
  /\ ws # Null /\ ~Opened(ws) /\ socks[ws].readyState = "CONNECTING"
  /\ \E s \in 1..Len(socks) : socks[s].errorFired

\* C4: when isConnected() is false, send() fails with NotConnected, writes
\* nothing, dispatches nothing and leaves the manager as it was.
C4_SendWhenNotConnected ==
  [][ (last'.op = "send" /\ hasWebSocket /\ ~IsConnected(Cur)) =>
        /\ last'.ret = "NotConnected"
        /\ trace' = << >>
        /\ UNCHANGED <<ws, socks>> ]_vars

\* a send() failed with NotConnected while a handle was held for a connecting socket
C4_Witness ==
  /\ last.op = "send" /\ last.ret = "NotConnected"
  /\ ws # Null /\ socks[ws].readyState = "CONNECTING"

CloseDispatch(flag) ==
  [kind |-> "dispatch", name |-> <<"close">>, payload |-> ObjVal([error |-> flag])]
ClientDispatch(n, e) == [kind |-> "dispatch", name |-> <<"client", n>>, payload |-> e]
\* the object a written frame carries
Written(w) == ObjectOf(w.text.members)

\* C5: a send() that succeeds dispatches its event under client.<name>, then under
\* client.*, then makes one transport write, whose frame carries the identifier of
\* the event dispatched.
C5_DispatchThenWrite ==
  (last.op = "send" /\ last.ret = "ok") =>
    LET n == Len(trace)
        e == trace[1].payload
    IN /\ n >= 3 /\ trace[1].kind = "dispatch"
       /\ {i \in 1..n : trace[i] = ClientDispatch(last.name, e)} = {1}
       /\ \E j \in 2..(n - 1) : {i \in 1..n : trace[i] = ClientDispatch("*", e)} = {j}
       /\ {i \in 1..n : trace[i].kind = "write"
                          /\ Written(trace[i]).event_id = e.v.event_id} = {n}

\* a send() succeeded while a handler sent an event of its own in between
C5_Witness ==
  /\ last.op = "send" /\ last.ret = "ok"
  /\ Len(trace) > 3

\* C6: the frame of a send() that succeeds has type = eventName and event_id = the
\* identifier generated for it, whatever keys data holds.
C6_IdAndTypeAuthoritative ==
  (last.op = "send" /\ last.ret = "ok") =>
    LET w == trace[Len(trace)]
    IN /\ Written(w).type = last.name
       /\ Written(w).event_id = w.gen
       /\ trace[1].payload.v.type = last.name
       /\ trace[1].payload.v.event_id = w.gen

\* C7: the frames written to a socket are in the order in which their send() calls
\* were made.  A call that follows another writes after it, so the sends of one
\* call decide it: the send() and those its handlers make, whose identifiers are
\* generated in the order of the calls.
C7_WritesInCallOrder ==
  \A i, j \in 1..Len(trace) :
    (i < j /\ trace[i].kind = "write" /\ trace[j].kind = "write"
       /\ trace[i].sock = trace[j].sock)
      => trace[i].gen < trace[j].gen

\* the frame parses to an object that has a type
Typed(f) ==
  LET p == JSONParse(f) IN p.ok /\ p.val.t = "object" /\ "type" \in DOMAIN p.val.v
TypedEntry(e) == e.payload.t = "object" /\ "type" \in DOMAIN e.payload.v
\* the two dispatches of a frame that has a type
PairOf(f) ==
  LET v == JSONParse(f).val
  IN << [kind |-> "dispatch", name |-> <<"server", v.v.type>>, payload |-> v],
        [kind |-> "dispatch", name |-> <<"server", "*">>, payload |-> v] >>
RECURSIVE PairsOf(_)
PairsOf(fs) ==
  IF fs = << >> THEN << >>
  ELSE (IF Typed(Head(fs)) THEN PairOf(Head(fs)) ELSE << >>) \o PairsOf(Tail(fs))

\* C8: a frame that parses to an object of type t makes two dispatches, server.<t>
\* then server.*, each with the parsed object, and handleMessage throws nothing;
\* over the frames delivered, these pairs are in the order of delivery.
C8_FramesDispatchedInOrder ==
  /\ (last.op = "message" /\ Typed(last.frame)) =>
       /\ last.ret = "ok"
       /\ SelectSeq(trace, IsServerDispatch) = PairOf(last.frame)
  /\ SelectSeq(srv, TypedEntry) = PairsOf(rx)

\* two different events were delivered, and a handler acted during the second
C8_Witness ==
  /\ last.op = "message" /\ Len(rx) = 2
  /\ Typed(rx[1]) /\ Typed(rx[2]) /\ rx[1] # rx[2]
  /\ Len(trace) > 2

\* some frame before the j-th was not parseable
AfterMalformed(j) == \E i \in 1..(j - 1) : ~JSONParse(rx[i]).ok

\* C9: a frame that does not parse causes no dispatch and no exception and leaves
\* the handle and the sockets as they were; frames with a type delivered after it
\* are dispatched.
C9_MalformedFrameDropped ==
  /\ [][ (last'.op = "message" /\ ~JSONParse(last'.frame).ok) =>
           /\ trace' = << >>
           /\ last'.ret = "ok"
           /\ UNCHANGED <<ws, socks, srv>> ]_vars
  /\ [](\A j \in 1..Len(rx) :
          (AfterMalformed(j) /\ Typed(rx[j])) =>
            \E k \in 1..(Len(srv) - 1) : SubSeq(srv, k, k + 1) = PairOf(rx[j]))

\* a frame that does not parse was dropped and the event after it was dispatched
C9_Witness ==
  /\ Len(rx) = 2 /\ ~JSONParse(rx[1]).ok /\ Typed(rx[2])
  /\ srv = PairOf(rx[2])
  /\ ws # Null /\ socks[ws].readyState = "OPEN"

\* C10: an error event on a socket that had opened makes one close dispatch with
\* error: true, after which the handle is null and isConnected() is false.
C10_ErrorAfterOpen ==
  (last.op = "error" /\ Opened(last.sock)) =>
    /\ Len(trace) >= 1 /\ trace[1] = CloseDispatch(TRUE)
    /\ {i \in 1..Len(trace) : trace[i] = CloseDispatch(TRUE)} = {1}
    /\ ws = Null
    /\ ~IsConnected(Cur)

\* an open connection failed and the socket connect() created after it was closed
C10_Witness ==
  /\ last.op = "error" /\ Opened(last.sock)
  /\ Len(socks) > last.sock /\ socks[Len(socks)].closePending
  /\ ws = Null

\* C11: after an error or close callback that dispatched close, with error true
\* or false, the handle is null and isConnected() is false.
C11_CloseLeavesDisconnected ==
  (last.op \in {"error", "close"} /\ CloseCount(trace) > 0) =>
    /\ ws = Null
    /\ ~IsConnected(Cur)

\* a close event dispatched close, a handler connected again during the dispatch,
\* and the socket it created was closed
C11_Witness ==
  /\ last.op = "close" /\ trace # << >> /\ trace[1] = CloseDispatch(FALSE)
  /\ Len(socks) > last.sock /\ socks[Len(socks)].closePending
  /\ ws = Null

\* C12: a disconnect() call ends without an error and without a dispatch and
\* leaves the handle null; when the handle was null already it requests no close
\* and changes no socket.
C12_DisconnectIdempotent ==
  [][ last'.op = "disconnect" =>
        /\ last'.ret = "ok"
        /\ trace' = << >>
        /\ ws' = Null
        /\ (ws = Null => socks' = socks) ]_vars

\* disconnect() was called with a null handle, after a socket had been closed
C12_Witness ==
  /\ last.op = "disconnect" /\ last.sock = Null
  /\ Len(socks) > 0 /\ socks[Len(socks)].closePending
  /\ ws = Null

\* C13: an error event on a socket that has not opened clears the handle and
\* rejects the promise of its connect(); neither it nor the close event that
\* follows it dispatches anything.
C13_ErrorBeforeOpenRejects ==
  (last.op \in {"error", "close"} /\ ~Opened(last.sock)) =>
    /\ trace = << >>
    /\ last.op = "error" => (ws = Null /\ socks[last.sock].promise = "rejected")

\* the transport failed an attempt that nobody had disconnected
C13_Witness ==
  /\ last.op = "error" /\ ~Opened(last.sock)
  /\ socks[last.sock].promise = "rejected"
  /\ ~socks[last.sock].closePending /\ ~socks[last.sock].closeFired

\* C14: on a host without a global WebSocket, connect() ends as a promise rejected
\* with EnvironmentUnsupported, creates no socket and leaves the handle null.
C14_NoTransportRejects ==
  (last.op = "connect" /\ ~hasWebSocket) =>
    /\ last.ret = "EnvironmentUnsupported"
    /\ ws = Null
    /\ socks = << >>

\* the manager reached Closed: by disconnect(), by an error event, or by the close
\* event of a socket that had opened
ClosedBy ==
  \/ last.op \in {"disconnect", "error"}
  \/ last.op = "close" /\ Opened(last.sock)

\* C15: each way of reaching Closed leaves the handle null, and a connect() made
\* with a null handle is accepted: it creates a socket, which becomes the handle.
C15_ConnectAfterClosed ==
  /\ [](ClosedBy => ws = Null)
  /\ [][ (last'.op = "connect" /\ hasWebSocket /\ ws = Null) =>
           /\ last'.ret = "pending"
           /\ socks' = Append(socks, NewWebSocket)
           /\ ws' = Len(socks') ]_vars

\* a connect() was accepted after one socket had opened and closed and the next
\* had failed before it opened
C15_Witness ==
  /\ last.op = "connect" /\ last.ret = "pending" /\ ws = 3
  /\ Opened(1) /\ socks[1].closeFired
  /\ ~Opened(2) /\ socks[2].errorFired

C17_DispatchedIsWritten ==
  last.op = "send" =>
    \A i \in 1..Len(trace) :
      (trace[i].kind = "dispatch" /\ trace[i].name[1] = "client") =>
        Cardinality({j \in 1..Len(trace) :
                       /\ trace[j].kind = "write"
                       /\ Written(trace[j]) = trace[i].payload.v}) = 1

\* onOpen or onErrorDuringConnection runs in the step, for the socket named
Settling(s) ==
  \/ last'.op = "open" /\ last'.sock = s /\ "onOpen" \in socks[s].listeners
  \/ last'.op = "error" /\ last'.sock = s /\ "onErrorDuringConnection" \in socks[s].listeners

\* C18: the promise of every connect() that created a socket is settled at most
\* once (resolve or reject is called only while it is pending, and a settled promise
\* stays as it is) and, where the transport reports open or error for every
\* socket, is eventually settled.
C18_ConnectSettlesOnce ==
  /\ [][ \A s \in 1..Len(socks) :
           /\ Settling(s) => socks[s].promise = "pending"
           /\ socks[s].promise # "pending" => socks'[s].promise = socks[s].promise ]_vars
  /\ \A s \in 1..LiveSockets :
       (Len(socks) >= s) ~> (Len(socks) >= s /\ socks[s].promise # "pending")

\* the promise of a connect() was rejected after disconnect() had closed its
\* socket while it was connecting
C18_Witness ==
  /\ last.op = "error" /\ ~Opened(last.sock)
  /\ socks[last.sock].promise = "rejected"
  /\ socks[last.sock].closePending

\* C19: the callbacks of a socket dispatch close at most once over its lifetime.
C19_AtMostOneClose ==
  \A s \in 1..Len(socks) : closes[s] <= 1

\* C20: an error or close callback of a socket other than the one held leaves the
\* handle as it was and requests no close of the socket held.
C20_StaleCallbackHarmless ==
  [][ (last'.op \in {"error", "close"} /\ ws # Null /\ ws # last'.sock) =>
        /\ ws' = ws
        /\ socks'[ws].closePending = socks[ws].closePending ]_vars
====
